---- MODULE Spec2Model ----
(***************************************************************************)
(* A model of the pulser-mcp services: the FastAPI "MCP servers" and the   *)
(* PulseDev backend.  The services are independent processes, so the model *)
(* is a family of state machines over one set of variables: each           *)
(* specification below (SpecAuth, SpecErr, ...) runs one service from the  *)
(* common initial state and leaves the variables of the others unchanged.  *)
(***************************************************************************)
EXTENDS Integers, Sequences, FiniteSets, TLC

None == "None"

\* ------------------------------------------------------------- bounds
\* The wall clock runs 0..MaxClock (token expiry, C1).
MaxClock == 2
\* store_memory is called at most MaxMemories times (ids 1..MaxMemories).
MaxMemories == 1
\* The memory service's clock advances at most MaxMemTicks times.
MaxMemTicks == 1
\* The graph holds at most MaxRelations [:RELATES_TO] edges.
MaxRelations == 1
\* bronze_transcriptions holds at most MaxTranscriptions rows.
MaxTranscriptions == 2
\* A path of a workspace has at most MaxDepth names.
MaxDepth == 2
\* create_workspace is called at most MaxWorkspaces times.
MaxWorkspaces == 1
\* At most MaxSockets websocket connections are opened.
MaxSockets == 2
\* The collaboration service handles at most MaxMessages client messages.
MaxMessages == 1
\* The wait of execute_code is followed for at most MaxExecSeconds seconds.
MaxExecSeconds == 31
\* The file_path of execute_file has at most MaxPathNames names.
MaxPathNames == 3
\* A search request's limit goes up to MaxBeyondLimit above the 100 allowed.
MaxBeyondLimit == 1
\* Calls of MCPDirectBridge._send_request, connections the MCP server
\* accepts, and ws.send calls counted for one request.
MaxRequests == 2
MaxConnections == 2
MaxAttempts == 2
\* file_change messages handled when the collaboration service is given
\* file changes only.
MaxFileChanges == 2
\* Turns of the HealthMonitor loop.
MaxChecks == 7

VARIABLES
    \* --- JWT gate of the tool endpoints ---
    now,            \* the server's clock (datetime.utcnow())
    authRequest,    \* the last request: its route and its credentials
    authStatus,     \* the HTTP status the request ended with
    bodyRan,        \* whether the route's handler body ran for that request
    \* --- which of the services this operating-system process runs ---
    process,
    \* --- the response of the request a service handled last ---
    response,
    \* --- shared_memory_mcp ---
    memories,       \* the (:Memory) nodes of the Neo4j graph
    relations,      \* the [:RELATES_TO] edges, <<from id, to id>>
    redis,          \* the Redis keys: [key, value, expires]
    memNow,         \* the clock of Neo4j, Redis and the server, in seconds
    nextMemoryId,   \* the ids uuid4() has handed out so far
    forgotten,      \* the ids forget_memory has answered success for
    \* --- scout_local_mcp ---
    transcriptions, \* the number of rows of bronze_transcriptions
    \* --- PulseDev workspaces (FileSystemService) ---
    workspaces,     \* self.workspaces: the ids with metadata
    nextWorkspaceId,\* the ids uuid4() has handed out so far
    fs,             \* per workspace id, the kind of the node at each path
    \* --- PulseDev collaboration (CollaborationManager) ---
    connections,    \* workspace_id -> dict user_id -> websocket
    active_users,   \* workspace_id -> the user ids with a User record
    file_cache,     \* workspace_id -> {<<file_path, content, user_id>>}
    terminal_history, \* workspace_id -> sequence of <<command, user_id>>
    websockets,     \* per connection: its workspace, its user, client there
    inbox,          \* per connection: the messages the client has received
    taskPc,         \* per connection: where its endpoint task stands
    taskStack,      \* per connection: the broadcast calls it is inside
    running,        \* the task that holds the event loop, 0 at an await
    handled,        \* the number of client messages handled so far
    errors,         \* per connection: the exception its endpoint ended with
    owed,           \* per connection: the users its message has yet to reach
    accepted_changes, \* the file changes handle_message has taken, in order
    \* --- financial_analyst_mcp execute_code ---
    started,        \* startup_event has run
    docker_client,  \* the global docker_client is set (not None)
    execution,      \* the code execution the handler is or was waiting for
    \* --- PulseDev code executor ---
    executor,       \* the last execute_file call: its path and what it did
    \* --- the demo server ---
    demo,           \* the last request of the demo server and its response
    \* --- MCPDirectBridge ---
    mcp_connected,  \* self.mcp_connected
    ws,             \* self.ws: the connection, 0 for None
    pending_requests, \* the request ids that have a future in self.pending_requests
    future,         \* request id -> state of its asyncio.Future
    callPc,         \* task -> where it stands in _send_request / connect_to_mcp
    callWs,         \* task -> the connection its awaited ws.send was called on
    mcp_open,       \* the connections that are open
    mcp_listeners,  \* the connections whose _listen_for_mcp_messages task runs
    mcp_made,       \* connections made so far
    attempts,       \* request id -> number of ws.send calls made with it
    mcp_received,   \* request id -> the connection the server got it on, 0 for none
    mcp_reply,      \* request id -> the server's answer: None, in flight, delivered
    reported,       \* request id -> outcomes handed to the caller of _send_request
    \* --- HealthMonitor ---
    consecutive_failures, \* self.consecutive_failures
    last_status,    \* self.last_status: <<>> for None, else <<the results>>
    session,        \* whether self.session is there
    monitor_log     \* the checks made so far: their results and the alert sent

varsAuth == <<now, authRequest, authStatus, bodyRan>>
varsScout == <<transcriptions>>
varsWorkspace == <<workspaces, nextWorkspaceId, fs>>
varsCollab == <<connections, active_users, file_cache, terminal_history,
                websockets, inbox, taskPc, taskStack, running, handled, errors, owed,
                accepted_changes>>
varsExec == <<started, docker_client, execution>>
varsExecutor == <<executor>>
varsDemo == <<demo>>
varsMonitor == <<consecutive_failures, last_status, session, monitor_log>>
varsBridge == <<mcp_connected, ws, pending_requests, future, callPc, callWs, mcp_open,
    mcp_listeners, mcp_made, attempts, mcp_received, mcp_reply, reported>>
varsMemory == <<memories, relations, redis, memNow, nextMemoryId, forgotten>>

vars == <<process, response, varsAuth, varsMemory, varsScout, varsWorkspace, varsCollab,
    varsExec, varsExecutor, varsDemo, varsBridge, varsMonitor>>
\* What the actions of one service leave alone: the other services' state.
notAuth == <<process, response, varsMemory, varsScout, varsWorkspace, varsCollab,
    varsExec, varsExecutor, varsDemo, varsBridge, varsMonitor>>
notMemory == <<process, varsAuth, varsScout, varsWorkspace, varsCollab,
    varsExec, varsExecutor, varsDemo, varsBridge, varsMonitor>>
notScout == <<process, varsAuth, varsMemory, varsWorkspace, varsCollab,
    varsExec, varsExecutor, varsDemo, varsBridge, varsMonitor>>
notWorkspace == <<process, varsAuth, varsMemory, varsScout, varsCollab,
    varsExec, varsExecutor, varsDemo, varsBridge, varsMonitor>>
notResponse == <<process, varsAuth, varsMemory, varsScout, varsWorkspace, varsCollab,
    varsExec, varsExecutor, varsDemo, varsBridge, varsMonitor>>
notCollab == <<process, response, varsAuth, varsMemory, varsScout, varsWorkspace,
    varsExec, varsExecutor, varsDemo, varsBridge, varsMonitor>>
notExec == <<process, varsAuth, varsMemory, varsScout, varsWorkspace, varsCollab,
    varsExecutor, varsDemo, varsBridge, varsMonitor>>
notExecutor == <<process, response, varsAuth, varsMemory, varsScout, varsWorkspace,
    varsCollab, varsExec, varsDemo, varsBridge, varsMonitor>>
notDemo == <<process, response, varsAuth, varsMemory, varsScout, varsWorkspace,
    varsCollab, varsExec, varsExecutor, varsBridge, varsMonitor>>
notBridge == <<process, response, varsAuth, varsMemory, varsScout, varsWorkspace,
    varsCollab, varsExec, varsExecutor, varsDemo, varsMonitor>>
notMonitor == <<process, response, varsAuth, varsMemory, varsScout, varsWorkspace,
    varsCollab, varsExec, varsExecutor, varsDemo, varsBridge>>

\* ======================================================================
\* JWT bearer authentication of the tool endpoints
\* ======================================================================

SECRET_KEY == "change-this-in-production"
ALGORITHM == "HS256"

\* A route: the file that declares it, its path, and the dependencies its
\* handler's signature declares (Depends(verify_token) or nothing).
Route(server, path, deps) == [server |-> server, path |-> path, deps |-> deps]
Guarded(server, paths) == {Route(server, p, {"verify_token"}) : p \in paths}
Open(server, paths) == {Route(server, p, {}) : p \in paths}

\* The tool routes of every server, with the file and the lines that declare
\* them.  scout_local_mcp imports neither Depends nor HTTPBearer; the demo
\* server says "(without auth for demo)".
Routes ==
    \* src/audio_analysis_mcp/src/audio_server.py 960-985
    Guarded("audio_analysis_mcp",
        {"/mcp/tools/analyze_audio", "/mcp/tools/assess_quality",
         "/mcp/tools/analyze_sentiment", "/mcp/tools/search_audio",
         "/mcp/tools/upload_audio"})
    \* src/briefvault_rag_mcp/src/briefvault_server.py 661-681
    \cup Guarded("briefvault_rag_mcp",
        {"/mcp/tools/ingest_document", "/mcp/tools/search_briefs",
         "/mcp/tools/analyze_brief", "/mcp/tools/upload_document"})
    \* src/creative_rag_mcp/src/rag_server.py 295-326
    \cup Guarded("creative_rag_mcp",
        {"/mcp/tools/ingest_asset", "/mcp/tools/search_vector",
         "/mcp/tools/search_web", "/mcp/tools/ingest_image"})
    \* src/deep_researcher_mcp/src/researcher_server.py 637-653
    \cup Guarded("deep_researcher_mcp",
        {"/mcp/tools/conduct_research", "/mcp/tools/analyze_competitors",
         "/mcp/tools/analyze_trends", "/mcp/tools/setup_monitoring"})
    \* src/financial_analyst_mcp/src/financial_server.py 469-494
    \cup Guarded("financial_analyst_mcp",
        {"/mcp/tools/analyze_kpis", "/mcp/tools/generate_code",
         "/mcp/tools/execute_code", "/mcp/tools/list_plots"})
    \* src/shared_memory_mcp/src/memory_server.py 465-498
    \cup Guarded("shared_memory_mcp",
        {"/mcp/tools/store_memory", "/mcp/tools/recall_memories",
         "/mcp/tools/create_relation", "/mcp/tools/get_memory_graph",
         "/mcp/tools/forget_memory"})
    \* src/synthetic_data_mcp/src/synthetic_server.py 601-626
    \cup Guarded("synthetic_data_mcp",
        {"/mcp/tools/generate_data", "/mcp/tools/validate_quality",
         "/mcp/tools/simulate_scenario", "/mcp/tools/list_outputs"})
    \* src/unified_mcp/src/unified_server.py 442-476
    \cup Guarded("unified_mcp",
        {"/mcp/tools/query_unified", "/mcp/tools/analyze_cross_agent",
         "/mcp/tools/create_model", "/mcp/tools/add_source",
         "/mcp/tools/list_sources"})
    \* src/video_rag_mcp/src/video_server.py 728-748
    \cup Guarded("video_rag_mcp",
        {"/mcp/tools/analyze_video", "/mcp/tools/check_compliance",
         "/mcp/tools/search_videos", "/mcp/tools/upload_video"})
    \* src/voice_agent_mcp/src/voice_server.py 489-525
    \cup Guarded("voice_agent_mcp",
        {"/mcp/tools/start_voice_session", "/mcp/tools/transcribe_audio",
         "/mcp/tools/analyze_call", "/mcp/tools/crawl_for_contacts",
         "/mcp/tools/upload_audio"})
    \* src/scout_local_mcp/src/server.py 245-270
    \cup Open("scout_local_mcp",
        {"/mcp/tools/add_transcription", "/mcp/tools/fetch_transcriptions",
         "/mcp/tools/analyze_trends", "/mcp/execute"})
    \* src/synthetic_data_mcp/src/synthetic_server_v2.py 528-534
    \cup Open("synthetic_data_mcp_v2",
        {"/mcp/tools/generate_data", "/mcp/tools/validate_quality"})
    \* src/synthetic_data_mcp/src/synthetic_server_v3.py 590-596
    \cup Open("synthetic_data_mcp_v3",
        {"/mcp/tools/generate_data", "/mcp/tools/validate_quality"})
    \* src/src/main.py 85-140
    \cup Open("demo", {"/tools/search", "/tools/generate", "/tools/analyze", "/command"})
    \* src/simple_server.py 91-124
    \cup Open("simple_server", {"/tools/search", "/tools/generate", "/tools/analyze"})

\* What a request carries in its Authorization header: the scheme (None: no
\* header) and, as the credentials, a JWT given by what its signature and
\* claims are: the algorithm of its header, the key it was signed with, its
\* exp claim (a set: empty when absent) and its sub claim (None: absent).
Schemes == {None, "Basic", "Bearer"}
Tokens ==
    [alg : {"HS256", "none"},
     key : {SECRET_KEY, "attacker-key"},
     exp : {{}} \cup {{e} : e \in 0 .. MaxClock},
     sub : {None, "alice"}]
Credentials == [scheme : Schemes, credentials : Tokens]

\* jose.jwt.decode(token, key, algorithms): the header's algorithm is one of
\* `algorithms`, the signature verifies under `key`, and the exp claim, when
\* present, has not passed.  Anything else raises a JWTError.
jwt_decode(token, key, algorithms, clock) ==
    /\ token.alg \in algorithms
    /\ token.key = key
    /\ (\A e \in token.exp : e >= clock)

\* The token verifies under HS256 with the configured secret.
Verifies(token, clock) == jwt_decode(token, SECRET_KEY, {ALGORITHM}, clock)

\* fastapi.security.HTTPBearer(): 403 unless the header is there with the
\* Bearer scheme.
security(cred) == IF cred.scheme = "Bearer" THEN "ok" ELSE "403"

\* A decode that skips the signature check (options verify_signature False).
verify_token_unverified(cred, clock) ==
    IF security(cred) # "ok" THEN "403"
    ELSE IF cred.credentials.sub = None THEN "401"
    ELSE "ok"

\* verify_token: the status it raises, or "ok" when it returns the username.
verify_token(cred, clock) ==
    IF security(cred) # "ok" THEN "403"
    ELSE IF ~jwt_decode(cred.credentials, SECRET_KEY, {ALGORITHM}, clock) THEN "401"
    ELSE IF cred.credentials.sub = None THEN "401"
    ELSE "ok"

\* FastAPI resolves the handler's dependencies before it calls the handler.
Dependencies(route, cred, clock) ==
    IF "verify_token" \in route.deps THEN verify_token(cred, clock) ELSE "ok"

\* Before the first request (authStatus = None) authRequest is a placeholder.
NoRequest ==
    [route |-> Route(None, None, {}),
     cred |-> [scheme |-> None,
               credentials |-> [alg |-> "none", key |-> "attacker-key",
                                exp |-> {}, sub |-> None]],
     at |-> 0]

InitAuth ==
    /\ now = 0
    /\ authRequest = NoRequest
    /\ authStatus = None
    /\ bodyRan = FALSE

\* One request to a tool endpoint, from the routing to the end of the handler.
HandleRequest ==
    \E route \in Routes, cred \in Credentials :
        LET dep == Dependencies(route, cred, now) IN
        /\ authStatus = None
        /\ authRequest' = [route |-> route, cred |-> cred, at |-> now]
        /\ bodyRan' = (dep = "ok")
        /\ authStatus' = IF dep = "ok" THEN "200" ELSE dep
        /\ UNCHANGED <<now, notAuth>>

\* The response is sent; the server is ready for the next request.
SendResponse ==
    /\ authStatus # None
    /\ authRequest' = NoRequest
    /\ authStatus' = None
    /\ bodyRan' = FALSE
    /\ UNCHANGED <<now, notAuth>>

ClockTick ==
    /\ now < MaxClock
    /\ now' = now + 1
    /\ UNCHANGED <<authRequest, authStatus, bodyRan, notAuth>>

NextAuth == HandleRequest \/ SendResponse \/ ClockTick

\* ======================================================================
\* The response of a request handler
\* ======================================================================

\* What the client of a handler gets: the HTTP status ("escaped": an exception
\* left the handler, which the framework turns into its own 500 page), the
\* body's success field and the body's data (the ids of the memories of a
\* recall; empty elsewhere).
Response(service, handler, status, success, data) ==
    [service |-> service, handler |-> handler, status |-> status,
     success |-> success, data |-> data]

NoResponse == Response(None, None, None, FALSE, {})

InitResponse == response = NoResponse

\* return result
Returns(service, handler, success, data) ==
    Response(service, handler, "200", success, data)
\* raise HTTPException(status_code=status, ...)
Raises(service, handler, status) == Response(service, handler, status, FALSE, {})
\* an exception no except clause of the handler catches
Escapes(service, handler) == Response(service, handler, "escaped", FALSE, {})

\* ======================================================================
\* shared_memory_mcp: store, recall, relate, graph, forget
\* ======================================================================

MEMORY_TTL_DAYS == 30
SecondsPerDay == 86400
\* setex(cache_key, 86400, ...) of store_memory, setex(cache_key, 300, ...) of
\* recall_memories
MemoryCacheTtl == 86400
RecallCacheTtl == 300

Texts == {"alpha", "beta"}
\* The ids uuid4() hands out are 1, 2, ...; 0 is an id it never hands out.
\* A client knows the ids handed out so far and can make up 0; it cannot
\* guess an id uuid4() has yet to draw.
MemoryIds == 0 .. MaxMemories
KnownIds == 0 .. (nextMemoryId - 1)
TtlDays == {0 - 1, 0, MEMORY_TTL_DAYS}
\* MemoryQuery, with agents, memory_types and tags left empty, limit at its
\* default of 10 (more than MaxMemories) and include_expired at its default.
MemoryQueries == [query : Texts, include_expired : {FALSE}]

\* What a call can find broken: nothing, the Neo4j session, Redis.
Faults == {"none", "neo4j", "redis"}

\* _generate_embedding seeds a generator with the text's md5: the same text
\* gives the same vector (cosine 1.0).  For two different texts the model
\* takes the cosine to be at most 0.7.
Similar(content, query) == content = query

MemoryKey(id) == [kind |-> "memory", id |-> id, query |-> None, include_expired |-> FALSE]
\* "recall:" + md5 of the query's JSON
RecallKey(q) ==
    [kind |-> "recall", id |-> 0, query |-> q.query, include_expired |-> q.include_expired]

\* redis_client.get(key): the value of a key that has not expired
RedisGet(key) == {e \in redis : e.key = key /\ e.expires > memNow}
\* redis_client.setex(key, ttl, value)
RedisSetex(r, key, ttl, value) ==
    {e \in r : e.key # key} \cup {[key |-> key, value |-> value, expires |-> memNow + ttl]}
\* redis_client.delete(key)
RedisDelete(r, key) == {e \in r : e.key # key}

\* MATCH (m:Memory) WHERE m.expires_at > datetime() ... similarity > 0.7
Matching(q) ==
    {m \in memories :
        /\ (q.include_expired \/ m.expires_at > memNow)
        /\ Similar(m.content, q.query)}

InitMemory ==
    /\ memories = {}
    /\ relations = {}
    /\ redis = {}
    /\ memNow = 0
    /\ nextMemoryId = 1
    /\ forgotten = {}

Idle == response = NoResponse
MemoryIdle == process = "memory" /\ Idle

\* POST /mcp/tools/store_memory
store_memory ==
    \E content \in Texts, ttl_days \in TtlDays, fault \in Faults :
        LET memory_id == nextMemoryId
            days == IF ttl_days = 0 THEN MEMORY_TTL_DAYS ELSE ttl_days
            node == [id |-> memory_id, content |-> content,
                     expires_at |-> memNow + days * SecondsPerDay]
        IN
        /\ MemoryIdle
        /\ nextMemoryId <= MaxMemories
        /\ nextMemoryId' = nextMemoryId + 1
        /\ memories' = IF fault = "neo4j" THEN memories ELSE memories \cup {node}
        /\ redis' = IF fault = "none"
                    THEN RedisSetex(redis, MemoryKey(memory_id), MemoryCacheTtl, {memory_id})
                    ELSE redis
        /\ response' = IF fault = "none"
                       THEN Returns("memory", "store_memory", TRUE, {memory_id})
                       ELSE Raises("memory", "store_memory", "400")
        /\ UNCHANGED <<relations, memNow, forgotten, notMemory>>

\* A recall that clears nothing and reads no cache: always asks Neo4j.
recall_result_uncached(q, fault) ==
    IF fault # "none" THEN [success |-> FALSE, data |-> {}, cache |-> FALSE]
    ELSE [success |-> TRUE, data |-> {m.id : m \in Matching(q)}, cache |-> TRUE]

\* MCPTools.recall_memories: the result and whether it is written to the cache.
recall_result(q, fault) ==
    IF fault = "redis" THEN [success |-> FALSE, data |-> {}, cache |-> FALSE]
    ELSE IF RedisGet(RecallKey(q)) # {}
         THEN [success |-> TRUE,
               data |-> UNION {e.value : e \in RedisGet(RecallKey(q))},
               cache |-> FALSE]
    ELSE IF fault = "neo4j" THEN [success |-> FALSE, data |-> {}, cache |-> FALSE]
    ELSE [success |-> TRUE, data |-> {m.id : m \in Matching(q)}, cache |-> TRUE]

\* POST /mcp/tools/recall_memories
recall_memories ==
    \E q \in MemoryQueries, fault \in Faults :
        LET r == recall_result(q, fault) IN
        /\ MemoryIdle
        /\ redis' = IF r.cache
                    THEN RedisSetex(redis, RecallKey(q), RecallCacheTtl, r.data)
                    ELSE redis
        /\ response' = IF r.success
                       THEN Returns("memory", "recall_memories", TRUE, r.data)
                       ELSE Raises("memory", "recall_memories", "400")
        /\ UNCHANGED <<memories, relations, memNow, nextMemoryId, forgotten, notMemory>>

\* POST /mcp/tools/create_relation
create_relation ==
    \E from \in KnownIds, to \in KnownIds, fault \in {"none", "neo4j"} :
        LET found == /\ \E m \in memories : m.id = from
                     /\ \E m \in memories : m.id = to
        IN
        /\ MemoryIdle
        /\ Cardinality(relations) < MaxRelations
        /\ relations' = IF fault = "none" /\ found
                        THEN relations \cup {<<from, to>>} ELSE relations
        /\ response' = IF fault = "none" /\ found
                       THEN Returns("memory", "create_relation", TRUE, {})
                       ELSE Raises("memory", "create_relation", "400")
        /\ UNCHANGED <<memories, redis, memNow, nextMemoryId, forgotten, notMemory>>

\* The status get_memory_graph's endpoint raises when the tool reports failure.
GraphFailureStatus == "404"

\* GET /mcp/tools/get_memory_graph/{memory_id}
get_memory_graph ==
    \E memory_id \in KnownIds, fault \in {"none", "neo4j"} :
        LET found == \E m \in memories : m.id = memory_id
            connected == {memory_id}
                         \cup {e[2] : e \in {r \in relations : r[1] = memory_id}}
                         \cup {e[1] : e \in {r \in relations : r[2] = memory_id}}
        IN
        /\ MemoryIdle
        /\ response' = IF fault = "none" /\ found
                       THEN Returns("memory", "get_memory_graph", TRUE, connected)
                       ELSE Raises("memory", "get_memory_graph", GraphFailureStatus)
        /\ UNCHANGED <<varsMemory, notMemory>>

\* DELETE /mcp/tools/forget_memory/{memory_id}
forget_memory ==
    \E memory_id \in KnownIds, fault \in Faults :
        /\ MemoryIdle
        /\ memories' = IF fault = "neo4j" THEN memories
                       ELSE {m \in memories : m.id # memory_id}
        /\ relations' = IF fault = "neo4j" THEN relations
                        ELSE {r \in relations : r[1] # memory_id /\ r[2] # memory_id}
        /\ redis' = IF fault = "none" THEN RedisDelete(redis, MemoryKey(memory_id))
                    ELSE redis
        /\ forgotten' = IF fault = "none" THEN forgotten \cup {memory_id} ELSE forgotten
        /\ response' = IF fault = "none"
                       THEN Returns("memory", "forget_memory", TRUE, {memory_id})
                       ELSE Raises("memory", "forget_memory", "500")
        /\ UNCHANGED <<memNow, nextMemoryId, notMemory>>

\* The response has gone out; the service takes the next request.
Respond ==
    /\ ~Idle
    /\ response' = NoResponse
    /\ UNCHANGED notResponse

\* RecallCacheTtl seconds pass; Redis drops the keys that have expired.
MemoryClockTick ==
    /\ MemoryIdle
    /\ memNow < MaxMemTicks * RecallCacheTtl
    /\ memNow' = memNow + RecallCacheTtl
    /\ redis' = {e \in redis : e.expires > memNow'}
    /\ UNCHANGED <<memories, relations, nextMemoryId, forgotten, response, notMemory>>

NextMemory ==
    \/ store_memory
    \/ recall_memories
    \/ create_relation
    \/ get_memory_graph
    \/ forget_memory
    \/ Respond
    \/ MemoryClockTick

\* ======================================================================
\* scout_local_mcp: the three tools and the generic /mcp/execute endpoint
\* ======================================================================

ScoutTools == {"add_transcription", "fetch_transcriptions", "analyze_trends"}
\* What a call can find broken: nothing, sqlite3.connect(DB_PATH) (the file
\* cannot be opened), a statement on the open connection.
ScoutFaults == {"none", "connect", "execute"}

InitScout == transcriptions = 0

ScoutIdle == process = "scout" /\ Idle

\* MCPTools.add_transcription / fetch_transcriptions / analyze_local_trends:
\* the connection is opened before the try; the statements run inside it.
\* "raise": the exception leaves the tool.
tool_result(fault) ==
    IF fault = "connect" THEN "raise"
    ELSE IF fault = "execute" THEN "failure"
    ELSE "success"

\* An endpoint of one tool: 400 when the tool reports a failure.
tool_endpoint(tool, fault) ==
    IF tool_result(fault) = "raise" THEN Escapes("scout", tool)
    ELSE IF tool_result(fault) = "failure" THEN Raises("scout", tool, "400")
    ELSE Returns("scout", tool, TRUE, {})

\* POST /mcp/tools/add_transcription
add_transcription ==
    \E fault \in ScoutFaults :
        /\ ScoutIdle
        /\ transcriptions < MaxTranscriptions
        /\ transcriptions' = IF fault = "none" THEN transcriptions + 1
                             ELSE transcriptions
        /\ response' = tool_endpoint("add_transcription", fault)
        /\ UNCHANGED notScout

\* POST /mcp/tools/fetch_transcriptions
fetch_transcriptions ==
    \E fault \in ScoutFaults :
        /\ ScoutIdle
        /\ response' = tool_endpoint("fetch_transcriptions", fault)
        /\ UNCHANGED <<transcriptions, notScout>>

\* GET /mcp/tools/analyze_trends
analyze_trends ==
    \E fault \in ScoutFaults :
        /\ ScoutIdle
        /\ response' = tool_endpoint("analyze_trends", fault)
        /\ UNCHANGED <<transcriptions, notScout>>

\* POST /mcp/execute.  valid: the params build the tool's request model
\* (TranscriptionData(**p), QueryRequest(**p)); analyze_trends ignores them.
execute_tool ==
    \E tool \in ScoutTools \cup {"unknown"}, valid \in BOOLEAN, fault \in ScoutFaults :
        LET built == valid \/ tool = "analyze_trends"
            ran == tool \in ScoutTools /\ built
            result == tool_result(fault)
        IN
        /\ ScoutIdle
        /\ tool = "add_transcription" /\ ran /\ result = "success"
                => transcriptions < MaxTranscriptions
        /\ transcriptions' =
              IF tool = "add_transcription" /\ ran /\ result = "success"
              THEN transcriptions + 1 ELSE transcriptions
        /\ response' =
              IF tool \notin ScoutTools THEN Raises("scout", "execute_tool", "400")
              ELSE IF ~built \/ result = "raise"
                   THEN Raises("scout", "execute_tool", "500")
              ELSE Returns("scout", "execute_tool", result = "success", {})
        /\ UNCHANGED notScout

NextScout ==
    \/ add_transcription
    \/ fetch_transcriptions
    \/ analyze_trends
    \/ execute_tool
    \/ Respond

\* ======================================================================
\* PulseDev workspaces: routes/workspace.py over FileSystemService
\* ======================================================================

Names == {"a", "b"}
\* The relative paths of a request: one to MaxDepth names.
Paths == UNION {[1 .. n -> Names] : n \in 1 .. MaxDepth}
Kinds == {"absent", "file", "dir"}
\* The ids uuid4() hands out are 1, 2, ...; 0 is an id it never hands out.
WorkspaceIds == 0 .. MaxWorkspaces
KnownWorkspaceIds == 0 .. (nextWorkspaceId - 1)
\* What a call can find broken: nothing, the operating system (OSError on an
\* open, a remove or a move), the file's encoding (UnicodeDecodeError).
FsFaults == {"none", "os", "decode"}

EmptyTree == [p \in Paths |-> "absent"]

Parent(p) == SubSeq(p, 1, Len(p) - 1)
Prefixes(p) == {SubSeq(p, 1, n) : n \in 1 .. Len(p)}
IsPrefix(p, q) == Len(p) <= Len(q) /\ SubSeq(q, 1, Len(p)) = p

\* Path.mkdir(exist_ok=True, parents=True) raises FileExistsError when the
\* path or one of its parents is a file.
mkdir_raises(tree, p) == \E q \in Prefixes(p) : tree[q] = "file"
mkdir(tree, p) ==
    [q \in Paths |-> IF q \in Prefixes(p) THEN "dir" ELSE tree[q]]
\* shutil.rmtree / os.remove
rmtree(tree, p) ==
    [q \in Paths |-> IF IsPrefix(p, q) THEN "absent" ELSE tree[q]]
\* os.rename(src, dst): the node at src and what is below it go to dst
rename(tree, src, dst) ==
    [q \in Paths |->
        IF IsPrefix(dst, q)
        THEN LET from == src \o SubSeq(q, Len(dst) + 1, Len(q)) IN
             IF from \in Paths THEN tree[from] ELSE "absent"
        ELSE IF IsPrefix(src, q) THEN "absent"
        ELSE tree[q]]
\* Every node below src has a path of at most MaxDepth names below dst.
Fits(tree, src, dst) ==
    \A q \in Paths :
        (IsPrefix(src, q) /\ tree[q] # "absent")
            => (dst \o SubSeq(q, Len(src) + 1, Len(q))) \in Paths

\* shutil.move(src, dst) on a tree where dst's parent is a directory:
\* ok, the tree after it, and whether the result is within MaxDepth.
shutil_move(tree, src, dst) ==
    LET real_dst == IF tree[dst] = "dir" /\ dst # src
                    THEN dst \o <<src[Len(src)]>> ELSE dst
    IN
    IF real_dst \notin Paths THEN [ok |-> FALSE, tree |-> tree, bounded |-> FALSE]
    ELSE IF real_dst = src THEN
        \* the same file, or (dst a directory) src is already inside dst
        [ok |-> dst = src, tree |-> tree, bounded |-> TRUE]
    ELSE IF tree[dst] = "dir" /\ tree[real_dst] # "absent" THEN
        \* Error: Destination path already exists
        [ok |-> FALSE, tree |-> tree, bounded |-> TRUE]
    ELSE IF IsPrefix(src, real_dst) THEN
        \* Error: Cannot move a directory into itself
        [ok |-> FALSE, tree |-> tree, bounded |-> TRUE]
    ELSE IF tree[src] = "dir" /\ tree[real_dst] = "file" THEN
        \* os.rename: NotADirectoryError, then copytree: FileExistsError
        [ok |-> FALSE, tree |-> tree, bounded |-> TRUE]
    ELSE [ok |-> TRUE, tree |-> rename(tree, src, real_dst),
          bounded |-> Fits(tree, src, real_dst)]

InitWorkspace ==
    /\ workspaces = {}
    /\ nextWorkspaceId = 1
    /\ fs = [w \in WorkspaceIds |-> EmptyTree]

WorkspaceIdle == process = "workspace" /\ Idle

\* POST /api/workspace/ (template "blank")
create_workspace ==
    /\ WorkspaceIdle
    /\ nextWorkspaceId <= MaxWorkspaces
    /\ nextWorkspaceId' = nextWorkspaceId + 1
    /\ workspaces' = workspaces \cup {nextWorkspaceId}
    /\ response' = Response("workspace", "create_workspace", "201", TRUE, {})
    /\ UNCHANGED <<fs, notWorkspace>>

\* GET /api/workspace/{workspace_id}
get_workspace ==
    \E workspace_id \in KnownWorkspaceIds :
        /\ WorkspaceIdle
        /\ response' = IF workspace_id \in workspaces
                       THEN Returns("workspace", "get_workspace", TRUE, {})
                       ELSE Raises("workspace", "get_workspace", "404")
        /\ UNCHANGED <<varsWorkspace, notWorkspace>>

\* DELETE /api/workspace/{workspace_id}
delete_workspace ==
    \E workspace_id \in KnownWorkspaceIds :
        /\ WorkspaceIdle
        /\ workspaces' = workspaces \ {workspace_id}
        /\ fs' = [fs EXCEPT ![workspace_id] = EmptyTree]
        /\ response' = IF workspace_id \in workspaces
                       THEN Returns("workspace", "delete_workspace", TRUE, {})
                       ELSE Raises("workspace", "delete_workspace", "404")
        /\ UNCHANGED <<nextWorkspaceId, notWorkspace>>

\* GET /api/workspace/{workspace_id}/files/{path}
read_file ==
    \E workspace_id \in KnownWorkspaceIds, path \in Paths, fault \in FsFaults :
        /\ WorkspaceIdle
        /\ response' =
              IF workspace_id \notin workspaces
              THEN Raises("workspace", "read_file", "404")
              ELSE IF fs[workspace_id][path] # "file"
                   THEN Raises("workspace", "read_file", "404")
              ELSE IF fault = "decode" THEN Raises("workspace", "read_file", "404")
              ELSE IF fault = "os" THEN Escapes("workspace", "read_file")
              ELSE Returns("workspace", "read_file", TRUE, {})
        /\ UNCHANGED <<varsWorkspace, notWorkspace>>

\* FileSystemService.write_file: "raise" (the mkdir before the try), or the
\* boolean it returns, and the tree after it.
write_file_result(tree, path, fault) ==
    IF mkdir_raises(tree, Parent(path)) THEN [result |-> "raise", tree |-> tree]
    ELSE LET made == mkdir(tree, Parent(path)) IN
         IF made[path] = "dir" \/ fault = "os"
         THEN [result |-> "False", tree |-> made]
         ELSE [result |-> "True", tree |-> [made EXCEPT ![path] = "file"]]

\* PUT /api/workspace/{workspace_id}/files/{path}
write_file ==
    \E workspace_id \in KnownWorkspaceIds, path \in Paths, fault \in {"none", "os"} :
        LET r == write_file_result(fs[workspace_id], path, fault) IN
        /\ WorkspaceIdle
        /\ fs' = IF workspace_id \in workspaces
                 THEN [fs EXCEPT ![workspace_id] = r.tree] ELSE fs
        /\ response' =
              IF workspace_id \notin workspaces
              THEN Raises("workspace", "write_file", "404")
              ELSE IF r.result = "raise" THEN Escapes("workspace", "write_file")
              ELSE IF r.result = "False" THEN Raises("workspace", "write_file", "400")
              ELSE Returns("workspace", "write_file", TRUE, {})
        /\ UNCHANGED <<workspaces, nextWorkspaceId, notWorkspace>>

\* DELETE /api/workspace/{workspace_id}/files/{path}
delete_file ==
    \E workspace_id \in KnownWorkspaceIds, path \in Paths, fault \in {"none", "os"} :
        LET done == /\ workspace_id \in workspaces
                    /\ fs[workspace_id][path] # "absent"
                    /\ fault = "none"
        IN
        /\ WorkspaceIdle
        /\ fs' = IF done
                 THEN [fs EXCEPT ![workspace_id] = rmtree(fs[workspace_id], path)]
                 ELSE fs
        /\ response' = IF done THEN Returns("workspace", "delete_file", TRUE, {})
                       ELSE Raises("workspace", "delete_file", "404")
        /\ UNCHANGED <<workspaces, nextWorkspaceId, notWorkspace>>

\* FileSystemService.rename_file: the boolean it returns and the tree after it.
rename_file_result(tree, old_path, new_path, fault) ==
    IF tree[old_path] = "absent"
    THEN [ok |-> FALSE, tree |-> tree, bounded |-> TRUE]
    ELSE IF mkdir_raises(tree, Parent(new_path))
    THEN [ok |-> FALSE, tree |-> tree, bounded |-> TRUE]
    ELSE IF fault = "os"
    THEN [ok |-> FALSE, tree |-> mkdir(tree, Parent(new_path)), bounded |-> TRUE]
    ELSE shutil_move(mkdir(tree, Parent(new_path)), old_path, new_path)

\* POST /api/workspace/{workspace_id}/files/{path}
rename_file ==
    \E workspace_id \in KnownWorkspaceIds, path \in Paths, new_path \in Paths,
       fault \in {"none", "os"} :
        LET r == rename_file_result(fs[workspace_id], path, new_path, fault) IN
        /\ WorkspaceIdle
        /\ workspace_id \in workspaces => r.bounded
        /\ fs' = IF workspace_id \in workspaces
                 THEN [fs EXCEPT ![workspace_id] = r.tree] ELSE fs
        /\ response' =
              IF workspace_id \notin workspaces
              THEN Raises("workspace", "rename_file", "404")
              ELSE IF ~r.ok THEN Raises("workspace", "rename_file", "400")
              ELSE Returns("workspace", "rename_file", TRUE, {})
        /\ UNCHANGED <<workspaces, nextWorkspaceId, notWorkspace>>

\* POST /api/workspace/{workspace_id}/directories
create_directory ==
    \E workspace_id \in KnownWorkspaceIds, path \in Paths :
        LET made == /\ workspace_id \in workspaces
                    /\ ~mkdir_raises(fs[workspace_id], path)
        IN
        /\ WorkspaceIdle
        /\ fs' = IF made
                 THEN [fs EXCEPT ![workspace_id] = mkdir(fs[workspace_id], path)]
                 ELSE fs
        /\ response' =
              IF workspace_id \notin workspaces
              THEN Raises("workspace", "create_directory", "404")
              ELSE IF ~made THEN Raises("workspace", "create_directory", "400")
              ELSE Returns("workspace", "create_directory", TRUE, {})
        /\ UNCHANGED <<workspaces, nextWorkspaceId, notWorkspace>>

NextWorkspace ==
    \/ create_workspace
    \/ get_workspace
    \/ delete_workspace
    \/ read_file
    \/ write_file
    \/ delete_file
    \/ rename_file
    \/ create_directory
    \/ Respond

\* ======================================================================
\* PulseDev collaboration: CollaborationManager behind the websocket route
\* ======================================================================
\* The service is one asyncio event loop.  Each websocket connection is a
\* task running websocket_endpoint; a task runs alone until it awaits
\* (accept, send_json, receive_json), where the loop may resume any task
\* that is ready.  `running` is the task that holds the loop, 0 at an await.

\* Workspace ids and user ids are names without meaning: a connection takes
\* a name a connection before it took, or the first name not taken yet.
CollabWorkspaces == <<"w1", "w2">>
CollabUsers == <<"u1", "u2">>
Fresh(names, taken) ==
    {names[i] : i \in {j \in 1 .. Len(names) :
                        \A k \in 1 .. (j - 1) : names[k] \in taken}}
Sockets == 1 .. MaxSockets
FilePaths == {"main.py"}
Contents == {"x", "y"}
max_terminal_history == 100

\* The data of a message, one shape for every type.
NoData == [users |-> {}, files |-> {}, history |-> <<>>, text |-> None]
CollaborationMessage(type, workspace_id, data, user_id) ==
    [type |-> type, workspace_id |-> workspace_id, data |-> data, user_id |-> user_id]

\* The service is run on two sets of inputs: clients of two workspaces that
\* send a message of any type, and clients of one workspace that send file
\* changes, one after another, some without content.
CollabProcesses == {"collaboration", "collaboration_files"}
WorkspaceInput == IF process = "collaboration" THEN CollabWorkspaces ELSE <<"w1">>
MessageBudget == IF process = "collaboration" THEN MaxMessages ELSE MaxFileChanges

\* What a client sends: {"type": ..., "data": {...}}
ClientMessages ==
    {[type |-> t, file_path |-> None, content |-> None] :
        t \in {"cursor_update", "terminal_command", "terminal_output", "ai_request"}}
    \cup {[type |-> "file_change", file_path |-> p, content |-> c] :
            p \in FilePaths, c \in Contents}
FileChangeMessages ==
    {[type |-> "file_change", file_path |-> p, content |-> c] :
        p \in FilePaths, c \in Contents \cup {None}}
ClientInput == IF process = "collaboration" THEN ClientMessages ELSE FileChangeMessages

\* A cache that keeps the first change of a file.
file_cache_keep(cache, change) ==
    IF \E c \in cache : c[1] = change[1] THEN cache ELSE cache \cup {change}
\* self.file_cache[workspace_id][file_path] = change
file_cache_put(cache, change) ==
    {c \in cache : c[1] # change[1]} \cup {change}

\* --- a Python dict that is iterated while it changes -------------------
\* CPython keeps the items in an array in insertion order: a new key is
\* appended, a deleted key leaves a hole, an existing key is updated in
\* place.  (The array is rebuilt when a sixth slot is needed; with
\* MaxSockets connections it never is.)
Tombstone == [key |-> None, value |-> 0]
ma_used(d) == Cardinality({i \in 1 .. Len(d) : d[i].key # None})
Contains(d, k) == \E i \in 1 .. Len(d) : d[i].key = k
Keys(d) == {d[i].key : i \in {j \in 1 .. Len(d) : d[j].key # None}}
GetItem(d, k) == d[CHOOSE i \in 1 .. Len(d) : d[i].key = k].value
SetItem(d, k, v) ==
    IF Contains(d, k)
    THEN [i \in 1 .. Len(d) |-> IF d[i].key = k THEN [key |-> k, value |-> v] ELSE d[i]]
    ELSE Append(d, [key |-> k, value |-> v])
DelItem(d, k) ==
    [i \in 1 .. Len(d) |-> IF d[i].key = k THEN Tombstone ELSE d[i]]
\* The first item at or after position pos, 0 when there is none.
NextEntry(d, pos) ==
    LET live == {i \in pos .. Len(d) : d[i].key # None} IN
    IF live = {} THEN 0 ELSE CHOOSE i \in live : \A j \in live : i <= j

\* f with f[k] = v, k added to the domain when it is new
Ext(f, k, v) == [x \in DOMAIN f \cup {k} |-> IF x = k THEN v ELSE f[x]]

\* --- the activation of one broadcast call ------------------------------
\* `for user_id, websocket in self.connections[workspace_id].items()`: the
\* iterator remembers its position, the dict's size when it was made
\* (di_used) and how many items it has left to give (len).
broadcast_frame(d, workspace_id, message, exclude) ==
    [workspace_id |-> workspace_id, message |-> message, exclude |-> exclude,
     di_pos |-> 1, di_used |-> ma_used(d), len |-> ma_used(d),
     disconnected |-> <<>>, phase |-> "iter"]

\* disconnect(workspace_id, user_id) up to its broadcast: the dicts after
\* it and the activation of the user_left broadcast, if it makes one.
disconnect_result(workspace_id, user_id) ==
    LET has == /\ workspace_id \in DOMAIN connections
               /\ Contains(connections[workspace_id], user_id)
        d == DelItem(connections[workspace_id], user_id)
        left == CollaborationMessage("user_left", workspace_id,
                                     [NoData EXCEPT !.users = {user_id}], user_id)
    IN
    IF ~has
    THEN [connections |-> connections, active_users |-> active_users,
          frames |-> <<>>, removed |-> {}]
    ELSE [connections |-> [connections EXCEPT ![workspace_id] = d],
          active_users |-> [active_users EXCEPT ![workspace_id] = @ \ {user_id}],
          frames |-> IF user_id \in active_users[workspace_id]
                     THEN <<broadcast_frame(d, workspace_id, left, user_id)>>
                     ELSE <<>>,
          removed |-> {user_id}]

\* The users a running message broadcast still has to reach, less the
\* users of workspace_id that are no longer connected.
Unowe(workspace_id, users) ==
    [t \in Sockets |->
        IF websockets[t].workspace_id = workspace_id THEN owed[t] \ users
        ELSE owed[t]]

InitCollab ==
    /\ connections = <<>>
    /\ active_users = <<>>
    /\ file_cache = <<>>
    /\ terminal_history = <<>>
    /\ websockets = [s \in Sockets |->
                        [workspace_id |-> None, user_id |-> None, open |-> FALSE]]
    /\ inbox = [s \in Sockets |-> <<>>]
    /\ taskPc = [s \in Sockets |-> "idle"]
    /\ taskStack = [s \in Sockets |-> <<>>]
    /\ running = 0
    /\ handled = 0
    /\ errors = [s \in Sockets |-> None]
    /\ owed = [s \in Sockets |-> {}]
    /\ accepted_changes = <<>>

\* The loop is free: every task is at an await.
LoopFree == process \in CollabProcesses /\ running = 0
\* Task s holds the loop, or can be given it.
Runs(s) == process \in CollabProcesses /\ running \in {0, s}

\* A client opens /api/collaboration/ws/{workspace_id}?user_id=...: the
\* endpoint runs to `await websocket.accept()`.
websocket_endpoint ==
    \E s \in Sockets,
       workspace_id \in Fresh(WorkspaceInput,
                              {websockets[t].workspace_id : t \in Sockets}),
       user_id \in Fresh(CollabUsers, {websockets[t].user_id : t \in Sockets}) :
        /\ LoopFree
        /\ taskPc[s] = "idle"
        /\ \A t \in Sockets : t < s => taskPc[t] # "idle"
        /\ websockets' = [websockets EXCEPT ![s] =
               [workspace_id |-> workspace_id, user_id |-> user_id, open |-> TRUE]]
        /\ taskPc' = [taskPc EXCEPT ![s] = "accept"]
        /\ UNCHANGED <<connections, active_users, file_cache, accepted_changes, terminal_history,
                       inbox, taskStack, running, handled, errors, owed, notCollab>>

\* The client goes away (the tab is closed, the network drops).
client_closes ==
    \E s \in Sockets :
        /\ LoopFree
        /\ taskPc[s] \notin {"idle", "done"}
        /\ websockets[s].open
        /\ websockets' = [websockets EXCEPT ![s].open = FALSE]
        /\ owed' = IF /\ websockets[s].workspace_id \in DOMAIN connections
                      /\ Contains(connections[websockets[s].workspace_id],
                                  websockets[s].user_id)
                      /\ GetItem(connections[websockets[s].workspace_id],
                                 websockets[s].user_id) = s
                   THEN Unowe(websockets[s].workspace_id, {websockets[s].user_id})
                   ELSE owed
        /\ UNCHANGED <<connections, active_users, file_cache, accepted_changes, terminal_history,
                       inbox, taskPc, taskStack, running, handled, errors, notCollab>>

\* connect, from the return of accept() to the start of its broadcast.
connect ==
    \E s \in Sockets :
        LET workspace_id == websockets[s].workspace_id
            user_id == websockets[s].user_id
            known == workspace_id \in DOMAIN connections
            d == SetItem(IF known THEN connections[workspace_id] ELSE <<>>, user_id, s)
            joined == CollaborationMessage("user_joined", workspace_id,
                                           [NoData EXCEPT !.users = {user_id}], user_id)
        IN
        /\ LoopFree
        /\ taskPc[s] = "accept"
        /\ websockets[s].open
        /\ connections' = Ext(connections, workspace_id, d)
        /\ active_users' = Ext(active_users, workspace_id,
               (IF known THEN active_users[workspace_id] ELSE {}) \cup {user_id})
        /\ file_cache' = IF known THEN file_cache ELSE Ext(file_cache, workspace_id, {})
        /\ terminal_history' = IF known THEN terminal_history
                               ELSE Ext(terminal_history, workspace_id, <<>>)
        /\ taskStack' = [taskStack EXCEPT ![s] =
               <<broadcast_frame(d, workspace_id, joined, None)>>]
        /\ taskPc' = [taskPc EXCEPT ![s] = "connect"]
        /\ running' = s
        /\ UNCHANGED <<websockets, inbox, handled, errors, owed, accepted_changes,
                       notCollab>>

\* websocket_endpoint's `except Exception`: the error is printed and the
\* user is disconnected, inside a try that swallows everything.
except_Exception(s, kind) ==
    LET r == disconnect_result(websockets[s].workspace_id, websockets[s].user_id) IN
    /\ errors' = [errors EXCEPT ![s] = kind]
    /\ connections' = r.connections
    /\ active_users' = r.active_users
    /\ owed' = Unowe(websockets[s].workspace_id, r.removed)
    /\ taskStack' = [taskStack EXCEPT ![s] = r.frames]
    /\ taskPc' = [taskPc EXCEPT ![s] = "failing"]
    /\ running' = s

\* broadcast's for loop asks the iterator for the next item: the loop is
\* over, the item is the excluded user, or the message is sent to the item's
\* websocket (await send_json), which fails when the client is gone.
broadcast_next ==
    \E s \in Sockets :
        LET top == Head(taskStack[s])
            d == connections[top.workspace_id]
            i == NextEntry(d, top.di_pos)
            taken == [top EXCEPT !.di_pos = i + 1,
                                 !.len = IF top.len > 0 THEN top.len - 1 ELSE 0]
            to == d[i].value
            sends == i # 0 /\ d[i].key # top.exclude
            arrives == sends /\ websockets[to].open
            after == IF i = 0 THEN [top EXCEPT !.phase = "cleanup"]
                     ELSE IF sends /\ ~arrives
                     THEN [taken EXCEPT !.disconnected = Append(@, d[i].key)]
                     ELSE taken
        IN
        /\ Runs(s)
        /\ taskStack[s] # <<>>
        /\ top.phase = "iter"
        /\ top.di_used = ma_used(d)
        /\ taskStack' = [taskStack EXCEPT ![s] = <<after>> \o Tail(taskStack[s])]
        /\ inbox' = IF arrives THEN [inbox EXCEPT ![to] = Append(@, top.message)]
                    ELSE inbox
        /\ owed' = IF arrives /\ top.message.type \notin {"user_joined", "user_left"}
                   THEN [owed EXCEPT ![s] = @ \ {d[i].key}]
                   ELSE owed
        /\ running' = IF sends THEN 0 ELSE s
        /\ UNCHANGED <<connections, active_users, file_cache, accepted_changes, terminal_history,
                       websockets, taskPc, handled, errors, notCollab>>

\* The iterator finds the dict's size changed ("dictionary changed size
\* during iteration"), or, from CPython 3.8 on, finds an item after it has
\* given as many as the dict had ("dictionary keys changed during
\* iteration"): RuntimeError.  No try of broadcast, disconnect, connect or
\* handle_message covers the for statement, so it reaches the endpoint:
\* `except Exception` when it comes from connect or handle_message, nobody
\* when it comes from the disconnect of `except WebSocketDisconnect`, the
\* bare except when it comes from the disconnect of `except Exception`.
broadcast_raises ==
    \E s \in Sockets :
        LET top == Head(taskStack[s])
            d == connections[top.workspace_id]
        IN
        /\ Runs(s)
        /\ taskStack[s] # <<>>
        /\ top.phase = "iter"
        /\ \/ top.di_used # ma_used(d)
           \/ top.len = 0 /\ NextEntry(d, top.di_pos) # 0
        /\ IF taskPc[s] \in {"connect", "handle"}
           THEN /\ except_Exception(s, "RuntimeError")
                /\ UNCHANGED websockets
           ELSE /\ errors' = IF taskPc[s] = "leaving"
                             THEN [errors EXCEPT ![s] = "RuntimeError"] ELSE errors
                /\ taskStack' = [taskStack EXCEPT ![s] = <<>>]
                /\ taskPc' = [taskPc EXCEPT ![s] = "done"]
                /\ websockets' = [websockets EXCEPT ![s].open = FALSE]
                /\ running' = 0
                /\ UNCHANGED <<connections, active_users, owed>>
        /\ UNCHANGED <<file_cache, accepted_changes, terminal_history, inbox, handled, notCollab>>

\* After the loop: disconnect the users whose send failed, one after the
\* other, each with its own user_left broadcast; then return.
broadcast_cleanup ==
    \E s \in Sockets :
        LET top == Head(taskStack[s])
            r == disconnect_result(top.workspace_id, Head(top.disconnected))
            rest == [top EXCEPT !.disconnected = Tail(@)]
        IN
        /\ Runs(s)
        /\ taskStack[s] # <<>>
        /\ top.phase = "cleanup"
        /\ IF top.disconnected = <<>>
           THEN /\ taskStack' = [taskStack EXCEPT ![s] = Tail(@)]
                /\ UNCHANGED <<connections, active_users, owed>>
           ELSE /\ taskStack' = [taskStack EXCEPT ![s] =
                       r.frames \o <<rest>> \o Tail(taskStack[s])]
                /\ connections' = r.connections
                /\ active_users' = r.active_users
                /\ owed' = Unowe(top.workspace_id, r.removed)
        /\ running' = s
        /\ UNCHANGED <<file_cache, accepted_changes, terminal_history, websockets, inbox, taskPc,
                       handled, errors, notCollab>>

\* send_state: users_list, files_cache, terminal_history, each read from the
\* manager right before it is sent, with an await after each send.
send_state ==
    \E s \in Sockets :
        LET workspace_id == websockets[s].workspace_id
            data == IF taskPc[s] = "connect"
                    THEN [NoData EXCEPT !.users = active_users[workspace_id]]
                    ELSE IF taskPc[s] = "state1"
                    THEN [NoData EXCEPT !.files = file_cache[workspace_id]]
                    ELSE [NoData EXCEPT !.history = terminal_history[workspace_id]]
            type == IF taskPc[s] = "connect" THEN "users_list"
                    ELSE IF taskPc[s] = "state1" THEN "files_cache"
                    ELSE "terminal_history"
            next == IF taskPc[s] = "connect" THEN "state1"
                    ELSE IF taskPc[s] = "state1" THEN "state2"
                    ELSE "receive"
        IN
        /\ Runs(s)
        /\ taskStack[s] = <<>>
        /\ taskPc[s] \in {"connect", "state1", "state2"}
        /\ websockets[s].open
        /\ inbox' = [inbox EXCEPT ![s] =
               Append(@, CollaborationMessage(type, workspace_id, data, "system"))]
        /\ taskPc' = [taskPc EXCEPT ![s] = next]
        /\ running' = 0
        /\ UNCHANGED <<connections, active_users, file_cache, accepted_changes, terminal_history,
                       websockets, taskStack, handled, errors, owed, notCollab>>

\* accept() or a send_json of send_state raises because the client is gone.
endpoint_error ==
    \E s \in Sockets :
        /\ Runs(s)
        /\ taskStack[s] = <<>>
        /\ taskPc[s] \in {"accept", "connect", "state1", "state2"}
        /\ ~websockets[s].open
        /\ except_Exception(s, "SendError")
        /\ UNCHANGED <<file_cache, accepted_changes, terminal_history, websockets, inbox, handled,
                       notCollab>>

\* receive_json() returns a message and handle_message runs to the start of
\* its broadcast.
handle_message ==
    \E s \in Sockets, m \in ClientInput :
        LET workspace_id == websockets[s].workspace_id
            user_id == websockets[s].user_id
            d == connections[workspace_id]
            active == user_id \in active_users[workspace_id]
            accepted == m.type = "file_change" /\ m.file_path # None /\ m.content # None
            broadcasts == /\ m.type = "cursor_update" => active
                          /\ m.type = "file_change" => accepted
            exclude == IF m.type \in {"cursor_update", "file_change"}
                       THEN user_id ELSE None
            change == <<m.file_path, m.content, user_id>>
            history == Append(terminal_history[workspace_id], <<"ls", user_id>>)
            data == IF m.type = "file_change" THEN [NoData EXCEPT !.files = {change}]
                    ELSE IF m.type = "terminal_command"
                    THEN [NoData EXCEPT !.history = <<<<"ls", user_id>>>>]
                    ELSE [NoData EXCEPT !.text = m.type]
            message == CollaborationMessage(m.type, workspace_id, data, user_id)
        IN
        /\ LoopFree
        /\ taskPc[s] = "receive"
        /\ websockets[s].open
        /\ handled < MessageBudget
        /\ handled' = handled + 1
        /\ file_cache' =
              IF accepted
              THEN [file_cache EXCEPT ![workspace_id] = file_cache_put(@, change)]
              ELSE file_cache
        /\ accepted_changes' =
              IF accepted
              THEN Append(accepted_changes, <<workspace_id, m.file_path, m.content>>)
              ELSE accepted_changes
        /\ terminal_history' =
              IF m.type = "terminal_command"
              THEN [terminal_history EXCEPT ![workspace_id] =
                       IF Len(history) > max_terminal_history
                       THEN SubSeq(history, Len(history) - max_terminal_history + 1,
                                   Len(history))
                       ELSE history]
              ELSE terminal_history
        /\ taskStack' = [taskStack EXCEPT ![s] =
               IF broadcasts
               THEN <<broadcast_frame(d, workspace_id, message, exclude)>>
               ELSE <<>>]
        /\ owed' = [owed EXCEPT ![s] =
               IF broadcasts
               THEN {k \in Keys(d) \ {exclude} : websockets[GetItem(d, k)].open}
               ELSE {}]
        /\ taskPc' = [taskPc EXCEPT ![s] = "handle"]
        /\ running' = s
        /\ UNCHANGED <<connections, active_users, websockets, inbox, errors,
                       notCollab>>

\* receive_json() raises WebSocketDisconnect: disconnect, to the start of
\* its broadcast.
client_disconnected ==
    \E s \in Sockets :
        LET r == disconnect_result(websockets[s].workspace_id, websockets[s].user_id) IN
        /\ LoopFree
        /\ taskPc[s] = "receive"
        /\ ~websockets[s].open
        /\ connections' = r.connections
        /\ active_users' = r.active_users
        /\ owed' = Unowe(websockets[s].workspace_id, r.removed)
        /\ taskStack' = [taskStack EXCEPT ![s] = r.frames]
        /\ taskPc' = [taskPc EXCEPT ![s] = "leaving"]
        /\ running' = s
        /\ UNCHANGED <<file_cache, accepted_changes, terminal_history, websockets, inbox, handled,
                       errors, notCollab>>

\* The outermost broadcast has returned: handle_message returns to the
\* receive loop; the endpoint returns after its disconnect, and the server
\* closes the socket.
returns ==
    \E s \in Sockets :
        /\ Runs(s)
        /\ taskStack[s] = <<>>
        /\ taskPc[s] \in {"handle", "leaving", "failing"}
        /\ taskPc' = [taskPc EXCEPT ![s] =
               IF taskPc[s] = "handle" THEN "receive" ELSE "done"]
        /\ websockets' = IF taskPc[s] = "handle" THEN websockets
                         ELSE [websockets EXCEPT ![s].open = FALSE]
        /\ running' = 0
        /\ UNCHANGED <<connections, active_users, file_cache, accepted_changes, terminal_history,
                       inbox, taskStack, handled, errors, owed, notCollab>>

NextCollab ==
    \/ websocket_endpoint
    \/ client_closes
    \/ connect
    \/ broadcast_next
    \/ broadcast_raises
    \/ broadcast_cleanup
    \/ send_state
    \/ endpoint_error
    \/ handle_message
    \/ client_disconnected
    \/ returns

\* ======================================================================
\* financial_analyst_mcp: execute_code, in Docker or as a subprocess
\* ======================================================================

\* CodeExecutionRequest.timeout: Optional[int] = 30.  A set with the number
\* of seconds, empty for an explicit null.
DefaultTimeout == 30
Timeouts == {{}, {1}, {2}, {DefaultTimeout}}
\* The submitted code: the seconds it runs (empty: it never ends) and the
\* status it exits with.
Programs == [runs : {{}, {0}, {2}}, exit_code : {0, 1}]
CodeExecutionRequests == [timeout : Timeouts, sandbox : BOOLEAN, code : Programs]

NoExecution ==
    [state |-> "none", where |-> None, sandbox |-> FALSE, timeout |-> {},
     code |-> [runs |-> {}, exit_code |-> 0], elapsed |-> 0, killed |-> FALSE]

InitExec ==
    /\ started = FALSE
    /\ docker_client = FALSE
    /\ execution = NoExecution

\* startup_event -> init_docker: docker.from_env() and the image pull work,
\* or the warning "Docker not available ... Falling back to subprocess".
init_docker ==
    /\ process = "financial"
    /\ ~started
    /\ started' = TRUE
    /\ \E available \in BOOLEAN : docker_client' = available
    /\ UNCHANGED <<execution, response, notExec>>

\* MCPTools.execute_code: `if request.sandbox and docker_client` chooses
\* _execute_in_docker, anything else _execute_subprocess.
execute_where(request) ==
    IF request.sandbox /\ docker_client THEN "docker" ELSE "subprocess"

\* POST /mcp/tools/execute_code, to the wait for the code: container.wait
\* (timeout=timeout) or wait_for(proc.communicate(), timeout=timeout).
\* fault: containers.run or create_subprocess_exec raises.
execute_code ==
    \E request \in CodeExecutionRequests, fault \in BOOLEAN :
        /\ process = "financial"
        /\ started
        /\ Idle
        /\ execution.state # "running"
        /\ execution' =
              [state |-> IF fault THEN "done" ELSE "running",
               where |-> execute_where(request),
               sandbox |-> request.sandbox, timeout |-> request.timeout,
               code |-> request.code, elapsed |-> 0, killed |-> FALSE]
        /\ response' = IF fault THEN Raises("financial", "execute_code", "400")
                       ELSE response
        /\ UNCHANGED <<started, docker_client, notExec>>

\* The code has ended / the wait's timeout has passed.
CodeEnded == \E n \in execution.code.runs : execution.elapsed >= n
WaitExpired == \E t \in execution.timeout : execution.elapsed >= t

\* A second passes while the handler waits.
exec_second ==
    /\ process = "financial"
    /\ execution.state = "running"
    /\ ~CodeEnded
    /\ ~WaitExpired
    /\ execution.elapsed < MaxExecSeconds
    /\ execution' = [execution EXCEPT !.elapsed = @ + 1]
    /\ UNCHANGED <<started, docker_client, response, notExec>>

\* The wait returns: Docker reports success whatever the exit code, the
\* subprocess path reports success when proc.returncode == 0.
exec_completes ==
    /\ process = "financial"
    /\ execution.state = "running"
    /\ CodeEnded
    /\ execution' = [execution EXCEPT !.state = "done"]
    /\ response' =
          IF execution.where = "docker" \/ execution.code.exit_code = 0
          THEN Returns("financial", "execute_code", TRUE, {})
          ELSE Raises("financial", "execute_code", "400")
    /\ UNCHANGED <<started, docker_client, notExec>>

\* The wait times out: container.wait raises (the container is left
\* running), wait_for raises TimeoutError (the process is killed).
exec_times_out ==
    /\ process = "financial"
    /\ execution.state = "running"
    /\ WaitExpired
    /\ ~CodeEnded
    /\ execution' = [execution EXCEPT !.state = "done",
                                      !.killed = (execution.where = "subprocess")]
    /\ response' = Raises("financial", "execute_code", "400")
    /\ UNCHANGED <<started, docker_client, notExec>>

NextExec ==
    \/ init_docker
    \/ execute_code
    \/ exec_second
    \/ exec_completes
    \/ exec_times_out
    \/ Respond

\* ======================================================================
\* PulseDev code executor: execute_file
\* ======================================================================
\* A path is a sequence of names and a name is a sequence of pieces of text,
\* so that "workspace2" = <<"workspace", "2">> begins with "workspace" as a
\* string without being the same name.

WORKSPACE_DIR == <<<<"home">>, <<"pulsedev">>, <<"workspace">>>>
\* The names of a request's file_path.
ExecutorNames == {<<"..">>, <<"x", ".py">>, <<"README">>, <<"workspace", "2">>}
\* The directories there are: /, /home, /home/pulsedev, the workspace and
\* its sibling /home/pulsedev/workspace2; each holds x.py and README.
ExecutorDirs ==
    {SubSeq(WORKSPACE_DIR, 1, n) : n \in 0 .. Len(WORKSPACE_DIR)}
    \cup {<<<<"home">>, <<"pulsedev">>, <<"workspace", "2">>>>}
FilePathInputs ==
    [absolute : BOOLEAN,
     names : UNION {[1 .. n -> ExecutorNames] : n \in 1 .. MaxPathNames}]

\* The path as the string Python sees: "/" before each name.
RECURSIVE PathString(_)
PathString(path) ==
    IF path = <<>> THEN <<>>
    ELSE <<"/">> \o Head(path) \o PathString(Tail(path))

\* str.startswith
startswith(s, prefix) ==
    Len(prefix) <= Len(s) /\ SubSeq(s, 1, Len(prefix)) = prefix

\* os.path.join(WORKSPACE_DIR, file_path): an absolute file_path replaces
\* what is before it.
os_path_join(dir, file_path) ==
    IF file_path.absolute THEN file_path.names ELSE dir \o file_path.names

\* os.path.abspath: ".." takes the name before it away (nothing at the
\* root); symbolic links are not looked at.
RECURSIVE os_path_abspath(_, _)
os_path_abspath(done, rest) ==
    IF rest = <<>> THEN done
    ELSE IF Head(rest) = <<"..">>
    THEN os_path_abspath(IF done = <<>> THEN <<>> ELSE SubSeq(done, 1, Len(done) - 1),
                         Tail(rest))
    ELSE os_path_abspath(Append(done, Head(rest)), Tail(rest))

os_path_exists(path) ==
    \/ path \in ExecutorDirs
    \/ /\ path # <<>>
       /\ SubSeq(path, 1, Len(path) - 1) \in ExecutorDirs
       /\ path[Len(path)] \in {<<"x", ".py">>, <<"README">>}

\* command_map, by the extension os.path.splitext finds
command_map == {".py", ".js", ".ts", ".sh"}

\* What execute_file does with a file_path.
execute_file_outcome(file_path) ==
    LET full_path == os_path_abspath(<<>>, os_path_join(WORKSPACE_DIR, file_path))
        name == full_path[Len(full_path)]
    IN
    IF ~startswith(PathString(full_path), PathString(WORKSPACE_DIR)) THEN "security error"
    ELSE IF ~os_path_exists(full_path) THEN "not found"
    ELSE IF name[Len(name)] \notin command_map THEN "unsupported"
    ELSE "executed"

NoRun == [file_path |-> [absolute |-> FALSE, names |-> <<>>], full_path |-> <<>>,
          outcome |-> None]

InitExecutor == executor = NoRun

\* execute_file(file_path)
execute_file ==
    \E file_path \in FilePathInputs :
        /\ process = "executor"
        /\ executor' =
              [file_path |-> file_path,
               full_path |-> os_path_abspath(<<>>, os_path_join(WORKSPACE_DIR, file_path)),
               outcome |-> execute_file_outcome(file_path)]
        /\ UNCHANGED notExecutor

NextExecutor == execute_file

\* ======================================================================
\* The demo server (src/main.py): /tools/search and /tools/analyze
\* ======================================================================

\* MockVectorStore.mock_data
mock_data == <<[id |-> "1", agent |-> "claudia"], [id |-> "2", agent |-> "maya"]>>

\* Python truth of an Optional[str]
Truthy(x) == x \notin {None, ""}

\* SearchRequest as the client sends it: query may be missing, limit may be
\* any integer around the range Field(10, ge=1, le=100) accepts; agent None
\* stands for a request without filters.
SearchRequests ==
    [query : BOOLEAN, limit : (0 - 1) .. (100 + MaxBeyondLimit),
     agent : {None, "", "claudia", "maya", "basher"}]
\* AnalyzeRequest as the client sends it; "other" is no member of AnalysisType.
AnalyzeRequests ==
    [document_url : {None, "", "http://doc"}, content : {None, "", "some words"},
     analysis_type : {"summary", "sentiment", "entities", "keywords",
                      "comprehensive", "other"}]

NoBody == [results |-> <<>>, total |-> 0, summary |-> FALSE, sentiment |-> FALSE,
           entities |-> FALSE, keywords |-> FALSE]
NoDemo == [endpoint |-> None, limit |-> 0, agent |-> None, analysis_type |-> None,
           status |-> None, body |-> NoBody]

InitDemo == demo = NoDemo

\* A search that forgets the slice and looks at all of mock_data.
vector_store_search_all(agent, limit) ==
    SelectSeq(mock_data, LAMBDA item : ~(Truthy(agent) /\ item.agent # agent))

\* MockVectorStore.search: the first `limit` items, less the items of
\* another agent when the filter names one.
vector_store_search(agent, limit) ==
    SelectSeq(SubSeq(mock_data, 1, IF limit < Len(mock_data) THEN limit
                                   ELSE Len(mock_data)),
              LAMBDA item : ~(Truthy(agent) /\ item.agent # agent))

\* POST /tools/search: 422 from the request model, else SearchHandler.search.
search ==
    \E request \in SearchRequests :
        LET valid == request.query /\ request.limit >= 1 /\ request.limit <= 100
            results == vector_store_search(request.agent, request.limit)
        IN
        /\ process = "demo"
        /\ demo' = [endpoint |-> "search", limit |-> request.limit,
                    agent |-> request.agent, analysis_type |-> None,
                    status |-> IF valid THEN "200" ELSE "422",
                    body |-> IF valid
                             THEN [NoBody EXCEPT !.results = results,
                                                 !.total = Len(results)]
                             ELSE NoBody]
        /\ UNCHANGED notDemo

\* POST /tools/analyze: 422 from the request model; AnalyzeHandler.analyze
\* calls content.split(), which raises AttributeError on None, and the
\* route turns every exception into a 500.
analyze ==
    \E request \in AnalyzeRequests :
        LET valid == request.analysis_type # "other"
            content == IF Truthy(request.document_url) /\ ~Truthy(request.content)
                       THEN "Mock content" ELSE request.content
            comprehensive == request.analysis_type = "comprehensive"
        IN
        /\ process = "demo"
        /\ demo' = [endpoint |-> "analyze", limit |-> 0, agent |-> None,
                    analysis_type |-> request.analysis_type,
                    status |-> IF ~valid THEN "422"
                               ELSE IF content = None THEN "500" ELSE "200",
                    body |-> IF valid /\ content # None
                             THEN [NoBody EXCEPT !.summary = TRUE,
                                                 !.sentiment = comprehensive,
                                                 !.entities = comprehensive,
                                                 !.keywords = comprehensive]
                             ELSE NoBody]
        /\ UNCHANGED notDemo

NextDemo == search \/ analyze

\* ======================================================================
\* MCPDirectBridge (pulsedev/backend/services/mcp_direct_bridge.py)
\* ======================================================================

\* Each request is one call of _send_request under a fresh uuid4 id; task 0
\* is start_mcp_direct_bridge, the loop that keeps the bridge connected.
RequestIds == 1 .. MaxRequests
BridgeTasks == 0 .. MaxRequests
\* The connections websockets.connect hands out; 0 stands for ws = None.
McpConnections == 1 .. MaxConnections

InitBridge ==
    /\ mcp_connected = FALSE
    /\ ws = 0
    /\ pending_requests = {}
    /\ future = [r \in RequestIds |-> "none"]
    /\ callPc = [t \in BridgeTasks |-> "idle"]
    /\ callWs = [t \in BridgeTasks |-> 0]
    /\ mcp_open = {}
    /\ mcp_listeners = {}
    /\ mcp_made = 0
    /\ attempts = [r \in RequestIds |-> 0]
    /\ mcp_received = [r \in RequestIds |-> 0]
    /\ mcp_reply = [r \in RequestIds |-> None]
    /\ reported = [r \in RequestIds |-> 0]

\* A _send_request that would go back to sending after its timeout.
except_TimeoutError_resend(request_id) ==
    [pc |-> "idle", pending_requests |-> pending_requests \ {request_id}]

\* _send_request's except asyncio.TimeoutError: forget the request and
\* raise RuntimeError("Request timed out") to the caller.
except_TimeoutError(request_id) ==
    [pc |-> "raised", pending_requests |-> pending_requests \ {request_id}]

\* The caller of _send_request (get_code_assistance, generate_code,
\* explain_code, debug_code) gets a result or an exception and answers its
\* own caller with the response or with the fallback; it calls nothing again.
Reports(t, pc) ==
    reported' = IF t \in RequestIds /\ pc \in {"returned", "raised"}
                THEN [reported EXCEPT ![t] = @ + 1] ELSE reported

\* connect_to_mcp is over for task t, with the bridge left connected on
\* connection c (0: not connected). The loop of start_mcp_direct_bridge
\* sleeps again; _send_to_mcp raises RuntimeError("Not connected to MCP
\* server") or goes on to ws.send on the connection it finds.
Connected(t, c) ==
    LET pc == IF t = 0 THEN "sleep" ELSE IF c = 0 THEN "raised" ELSE "send" IN
    /\ callPc' = [callPc EXCEPT ![t] = pc]
    /\ callWs' = [callWs EXCEPT ![t] = IF pc = "send" THEN c ELSE 0]
    /\ Reports(t, pc)

\* start_mcp_direct_bridge: connect, then every 60 seconds connect again
\* if the bridge is found disconnected.
start_mcp_direct_bridge ==
    /\ process = "bridge"
    /\ callPc[0] \in {"idle", "sleep"}
    /\ ~mcp_connected
    /\ callPc' = [callPc EXCEPT ![0] = "connect"]
    /\ UNCHANGED <<mcp_connected, ws, pending_requests, future, callWs, mcp_open,
                   mcp_listeners, mcp_made, attempts, mcp_received, mcp_reply,
                   reported, notBridge>>

\* _send_request up to its first await: the future is put in
\* pending_requests and _send_to_mcp either goes to ws.send on self.ws or,
\* not connected, into connect_to_mcp.
send_request(r) ==
    /\ process = "bridge"
    /\ callPc[r] = "idle"
    /\ pending_requests' = pending_requests \cup {r}
    /\ future' = [future EXCEPT ![r] = "pending"]
    /\ callPc' = [callPc EXCEPT ![r] = IF mcp_connected /\ ws # 0 THEN "send"
                                       ELSE "connect"]
    /\ callWs' = [callWs EXCEPT ![r] = IF mcp_connected /\ ws # 0 THEN ws ELSE 0]
    /\ UNCHANGED <<mcp_connected, ws, mcp_open, mcp_listeners, mcp_made, attempts,
                   mcp_received, mcp_reply, reported, notBridge>>

\* connect_to_mcp at await websockets.connect(MCP_URL): a new connection,
\* with its listener task, or the exception that leaves the bridge
\* disconnected whatever another task has connected meanwhile.
websockets_connect(t) ==
    /\ process = "bridge"
    /\ callPc[t] = "connect"
    /\ \/ /\ mcp_made < MaxConnections
          /\ mcp_made' = mcp_made + 1
          /\ ws' = mcp_made + 1
          /\ mcp_connected' = TRUE
          /\ mcp_open' = mcp_open \cup {mcp_made + 1}
          /\ mcp_listeners' = mcp_listeners \cup {mcp_made + 1}
          /\ callPc' = [callPc EXCEPT ![t] = "register"]
          /\ callWs' = [callWs EXCEPT ![t] = mcp_made + 1]
          /\ UNCHANGED reported
       \/ /\ mcp_connected' = FALSE
          /\ ws' = 0
          /\ Connected(t, 0)
          /\ UNCHANGED <<mcp_made, mcp_open, mcp_listeners>>
    /\ UNCHANGED <<pending_requests, future, attempts, mcp_received, mcp_reply,
                   notBridge>>

\* connect_to_mcp at await self._send_to_mcp({"type": "register", ...}),
\* then load_prompt and the return to the caller of connect_to_mcp.
send_register(t) ==
    /\ process = "bridge"
    /\ callPc[t] = "register"
    /\ IF callWs[t] \in mcp_open
       THEN /\ Connected(t, IF mcp_connected THEN ws ELSE 0)
            /\ UNCHANGED <<mcp_connected, ws>>
       ELSE /\ mcp_connected' = FALSE
            /\ ws' = 0
            /\ Connected(t, 0)
    /\ UNCHANGED <<pending_requests, future, mcp_open, mcp_listeners, mcp_made,
                   attempts, mcp_received, mcp_reply, notBridge>>

\* _send_to_mcp at await self.ws.send(json.dumps(message)) for a request:
\* the one send there is. On a closed connection it raises, the bridge is
\* marked disconnected and RuntimeError leaves _send_request, whose future
\* stays in pending_requests.
ws_send(r) ==
    /\ process = "bridge"
    /\ callPc[r] = "send"
    /\ attempts[r] < MaxAttempts
    /\ attempts' = [attempts EXCEPT ![r] = @ + 1]
    /\ IF callWs[r] \in mcp_open
       THEN /\ mcp_received' = [mcp_received EXCEPT ![r] = callWs[r]]
            /\ callPc' = [callPc EXCEPT ![r] = "wait"]
            /\ UNCHANGED <<mcp_connected, ws, reported>>
       ELSE /\ mcp_connected' = FALSE
            /\ ws' = 0
            /\ callPc' = [callPc EXCEPT ![r] = "raised"]
            /\ Reports(r, "raised")
            /\ UNCHANGED mcp_received
    /\ callWs' = [callWs EXCEPT ![r] = 0]
    /\ UNCHANGED <<pending_requests, future, mcp_open, mcp_listeners, mcp_made,
                   mcp_reply, notBridge>>

\* The MCP server answers a request it has received, once, with a response
\* or with an error.
mcp_replies(r) ==
    /\ process = "bridge"
    /\ mcp_received[r] \in mcp_open
    /\ mcp_reply[r] = None
    /\ \E kind \in {"response", "error"} :
           mcp_reply' = [mcp_reply EXCEPT ![r] = kind]
    /\ UNCHANGED <<mcp_connected, ws, pending_requests, future, callPc, callWs,
                   mcp_open, mcp_listeners, mcp_made, attempts, mcp_received,
                   reported, notBridge>>

\* _listen_for_mcp_messages with _handle_mcp_message: an answer to a
\* pending request completes its future; an answer to a request no longer
\* pending is dropped; set_result on a future that wait_for has cancelled
\* raises InvalidStateError, which ends the listener and marks the bridge
\* disconnected.
handle_mcp_message(r) ==
    /\ process = "bridge"
    /\ mcp_reply[r] \in {"response", "error"}
    /\ mcp_received[r] \in mcp_listeners
    /\ mcp_reply' = [mcp_reply EXCEPT ![r] = "delivered"]
    /\ IF r \in pending_requests
       THEN /\ pending_requests' = pending_requests \ {r}
            /\ IF future[r] = "cancelled"
               THEN /\ mcp_listeners' = mcp_listeners \ {mcp_received[r]}
                    /\ mcp_connected' = FALSE
                    /\ ws' = 0
                    /\ UNCHANGED future
               ELSE /\ future' = [future EXCEPT ![r] =
                           IF mcp_reply[r] = "response" THEN "result"
                           ELSE "exception"]
                    /\ UNCHANGED <<mcp_listeners, mcp_connected, ws>>
       ELSE UNCHANGED <<pending_requests, future, mcp_listeners, mcp_connected, ws>>
    /\ UNCHANGED <<callPc, callWs, mcp_open, mcp_made, attempts, mcp_received,
                   reported, notBridge>>

\* _send_request at await asyncio.wait_for(future, timeout=120.0), the
\* future done: its result is returned or its exception raised.
wait_for_done(r) ==
    /\ process = "bridge"
    /\ callPc[r] = "wait"
    /\ future[r] \in {"result", "exception"}
    /\ callPc' = [callPc EXCEPT ![r] = IF future[r] = "result" THEN "returned"
                                       ELSE "raised"]
    /\ Reports(r, "returned")
    /\ UNCHANGED <<mcp_connected, ws, pending_requests, future, callWs, mcp_open,
                   mcp_listeners, mcp_made, attempts, mcp_received, mcp_reply,
                   notBridge>>

\* The 120 seconds are over with the future still pending: wait_for cancels
\* it and waits for the cancellation before it raises TimeoutError.
wait_for_timeout(r) ==
    /\ process = "bridge"
    /\ callPc[r] = "wait"
    /\ future[r] = "pending"
    /\ future' = [future EXCEPT ![r] = "cancelled"]
    /\ callPc' = [callPc EXCEPT ![r] = "timeout"]
    /\ UNCHANGED <<mcp_connected, ws, pending_requests, callWs, mcp_open,
                   mcp_listeners, mcp_made, attempts, mcp_received, mcp_reply,
                   reported, notBridge>>

\* _send_request after TimeoutError.
request_timed_out(r) ==
    /\ process = "bridge"
    /\ callPc[r] = "timeout"
    /\ pending_requests' = except_TimeoutError(r).pending_requests
    /\ callPc' = [callPc EXCEPT ![r] = except_TimeoutError(r).pc]
    /\ Reports(r, except_TimeoutError(r).pc)
    /\ UNCHANGED <<mcp_connected, ws, future, callWs, mcp_open, mcp_listeners,
                   mcp_made, attempts, mcp_received, mcp_reply, notBridge>>

\* The MCP server, or the network, closes a connection.
mcp_closes(c) ==
    /\ process = "bridge"
    /\ c \in mcp_open
    /\ mcp_open' = mcp_open \ {c}
    /\ UNCHANGED <<mcp_connected, ws, pending_requests, future, callPc, callWs,
                   mcp_listeners, mcp_made, attempts, mcp_received, mcp_reply,
                   reported, notBridge>>

\* _listen_for_mcp_messages on ConnectionClosed: the bridge is marked
\* disconnected, whichever connection self.ws is by now.
ConnectionClosed(c) ==
    /\ process = "bridge"
    /\ c \in mcp_listeners \ mcp_open
    /\ mcp_listeners' = mcp_listeners \ {c}
    /\ mcp_connected' = FALSE
    /\ ws' = 0
    /\ UNCHANGED <<pending_requests, future, callPc, callWs, mcp_open, mcp_made,
                   attempts, mcp_received, mcp_reply, reported, notBridge>>

\* disconnect_from_mcp: close self.ws and cancel its listener.
disconnect_from_mcp ==
    /\ process = "bridge"
    /\ mcp_connected /\ ws # 0
    /\ mcp_open' = mcp_open \ {ws}
    /\ mcp_listeners' = mcp_listeners \ {ws}
    /\ mcp_connected' = FALSE
    /\ ws' = 0
    /\ UNCHANGED <<pending_requests, future, callPc, callWs, mcp_made, attempts,
                   mcp_received, mcp_reply, reported, notBridge>>

NextBridge ==
    \/ start_mcp_direct_bridge
    \/ disconnect_from_mcp
    \/ \E t \in BridgeTasks : websockets_connect(t) \/ send_register(t)
    \/ \E c \in McpConnections : mcp_closes(c) \/ ConnectionClosed(c)
    \/ \E r \in RequestIds :
           \/ send_request(r)
           \/ ws_send(r)
           \/ mcp_replies(r)
           \/ handle_mcp_message(r)
           \/ wait_for_done(r)
           \/ wait_for_timeout(r)
           \/ request_timed_out(r)

\* ======================================================================
\* HealthMonitor (monitoring/health-monitor.py)
\* ======================================================================

\* What GET HEALTH_URL and GET SSE_URL can come to: a 200 (for SSE with a
\* first chunk or with none), another status, or an exception (refused,
\* timed out, a body that is no JSON).
HealthOutcomes == {"200", "503", "error"}
SseOutcomes == {"chunk", "empty", "503", "error"}

InitMonitor ==
    /\ consecutive_failures = 0
    /\ last_status = <<>>
    /\ session = FALSE
    /\ monitor_log = <<>>

\* A monitor that alerts at the third failure and at every later one.
down_alert_due_since(failures) == failures >= 3
\* handle_status_change: if self.consecutive_failures == 3
down_alert_due(failures) == failures = 3

\* A monitor that reports a recovery after any failure.
recovered_alert_due_always(failures) == failures >= 1
\* handle_status_change: if self.consecutive_failures >= 3
recovered_alert_due(failures) == failures >= 3

\* handle_status_change: the new consecutive_failures and the alert sent.
handle_status_change(current_status) ==
    LET is_healthy == current_status.health_endpoint /\ current_status.sse_endpoint IN
    IF ~is_healthy
    THEN [consecutive_failures |-> consecutive_failures + 1,
          alert |-> IF down_alert_due(consecutive_failures + 1) THEN "DOWN" ELSE None]
    ELSE [consecutive_failures |-> 0,
          alert |-> IF recovered_alert_due(consecutive_failures) THEN "RECOVERED"
                    ELSE None]

\* HealthMonitor.start up to its loop: the client session.
monitor_start ==
    /\ process = "monitor"
    /\ ~session
    /\ session' = TRUE
    /\ UNCHANGED <<consecutive_failures, last_status, monitor_log, notMonitor>>

\* One turn of the loop: check_health with handle_status_change and, when
\* an alert is due, send_alert, which logs it and posts it to the webhook
\* if there is one; the post's status or exception is logged and changes
\* nothing in the monitor.
check_health ==
    \E health \in HealthOutcomes, sse \in SseOutcomes :
        LET results == [health_endpoint |-> health = "200",
                        sse_endpoint |-> sse = "chunk"]
            handled_ == handle_status_change(results)
        IN
        /\ process = "monitor"
        /\ session
        /\ Len(monitor_log) < MaxChecks
        /\ consecutive_failures' = handled_.consecutive_failures
        /\ last_status' = <<results>>
        /\ monitor_log' = Append(monitor_log,
               [health_endpoint |-> results.health_endpoint,
                sse_endpoint |-> results.sse_endpoint,
                alert |-> handled_.alert])
        /\ UNCHANGED <<session, notMonitor>>

NextMonitor == monitor_start \/ check_health

\* ======================================================================
\* Specifications
\* ======================================================================

\* Each service is a process of its own
\* (uvicorn.run(app, ...) at the end of each server file).
Processes == {"auth", "memory", "scout", "workspace", "collaboration",
              "financial", "executor", "demo", "bridge",
              "monitor", "collaboration_files"}

Init ==
    /\ process \in Processes
    /\ InitAuth
    /\ InitResponse
    /\ InitMemory
    /\ InitScout
    /\ InitWorkspace
    /\ InitCollab
    /\ InitExec
    /\ InitExecutor
    /\ InitDemo
    /\ InitBridge
    /\ InitMonitor

InitAuthProcess == Init /\ process = "auth"
SpecAuth == InitAuthProcess /\ [][NextAuth]_vars

InitMemoryProcess == Init /\ process = "memory"
SpecMemory == InitMemoryProcess /\ [][NextMemory]_vars

\* The request handlers of shared_memory_mcp, scout_local_mcp and the
\* PulseDev workspace routes, each service in its own process.
InitErrProcess == Init /\ process \in {"memory", "scout", "workspace"}
NextErr == NextMemory \/ NextScout \/ NextWorkspace
SpecErr == InitErrProcess /\ [][NextErr]_vars

\* The collaboration service: the websocket tasks of one event loop.
InitCollabProcess == Init /\ process = "collaboration"
SpecCollab == InitCollabProcess /\ [][NextCollab]_vars

\* financial_analyst_mcp's execute_code endpoint.
InitExecProcess == Init /\ process = "financial"
SpecExec == InitExecProcess /\ [][NextExec]_vars

\* The code executor (executor.py run in the container).
InitExecutorProcess == Init /\ process = "executor"
SpecExecutor == InitExecutorProcess /\ [][NextExecutor]_vars

\* The demo server.
InitDemoProcess == Init /\ process = "demo"
SpecDemo == InitDemoProcess /\ [][NextDemo]_vars

\* MCPDirectBridge.
InitBridgeProcess == Init /\ process = "bridge"
SpecBridge == InitBridgeProcess /\ [][NextBridge]_vars

\* CollaborationManager, given file changes.
InitCollabFilesProcess == Init /\ process = "collaboration_files"
SpecCollabFiles == InitCollabFilesProcess /\ [][NextCollab]_vars

\* HealthMonitor.
InitMonitorProcess == Init /\ process = "monitor"
SpecMonitor == InitMonitorProcess /\ [][NextMonitor]_vars

\* ======================================================================
\* Claims
\* ======================================================================

C2_FailuresOnlyAs400Or500 ==
    ~Idle =>
        \/ response.status \in {"200", "201"}
        \/ response.status \in {"400", "500"}

\* C3: a broadcast that is suspended at a send while another client connects
\* to or disconnects from the workspace still completes: the iteration over
\* the connections never fails, so no endpoint ends the sender's handler
\* with that error, and once a message handler is over its message has
\* reached every user that stayed connected throughout.
C3_BroadcastSurvivesConnectAndDisconnect ==
    \A s \in Sockets :
        /\ errors[s] # "RuntimeError"
        /\ taskPc[s] # "handle" => owed[s] = {}

\* C4: execute_code with sandbox = true runs the submitted code only inside
\* a Docker container, never as a local subprocess of the server.
C4_SandboxMeansDocker ==
    (execution.state # "none" /\ execution.sandbox) => execution.where = "docker"

\* C5: every execute_code request is bounded by its timeout (30 seconds when
\* the request gives none): the handler is never still waiting for the code
\* after the timeout has elapsed, in the Docker path and in the subprocess
\* path alike.
C5_WaitBoundedByTimeout ==
    execution.state = "running" =>
        execution.elapsed <= (IF execution.timeout = {} THEN DefaultTimeout
                              ELSE CHOOSE t \in execution.timeout : TRUE)

\* C7: execute_file runs a file only if its resolved absolute path lies
\* inside the workspace directory (the directory itself is the beginning of
\* the path, name by name); for any other path it returns the security error.
C7_ExecutesOnlyInsideWorkspace ==
    executor.outcome \in {"executed", "not found", "unsupported"} =>
        /\ Len(executor.full_path) >= Len(WORKSPACE_DIR)
        /\ SubSeq(executor.full_path, 1, Len(WORKSPACE_DIR)) = WORKSPACE_DIR

\* C6: after forget_memory(id) has returned success, no later recall_memories
\* call returns the memory with that id.
C6_ForgottenNeverRecalled ==
    (response.handler = "recall_memories" /\ response.success) =>
        response.data \cap forgotten = {}

\* C8: a search request with a limit L between 1 and 100, with or without
\* an agent filter, is answered 200 with at most L results, and total is
\* the number of results returned.
C8_AtMostLimitAndTotalIsCount ==
    (demo.endpoint = "search" /\ demo.limit >= 1 /\ demo.limit <= 100
        /\ demo.status # "422") =>
        /\ demo.status = "200"
        /\ Len(demo.body.results) <= demo.limit
        /\ demo.body.total = Len(demo.body.results)

\* A search with limit 1 and no filter is answered with one result, the
\* first of the two items there are, and total 1.
C8_Witness ==
    /\ demo.endpoint = "search"
    /\ demo.status = "200"
    /\ demo.limit = 1
    /\ demo.limit < Len(mock_data)
    /\ demo.agent = None
    /\ Len(demo.body.results) = 1
    /\ demo.body.total = 1

\* C9: every /tools/analyze request that passes request validation is
\* answered 200 with a summary, and with sentiment, entities and keywords
\* when analysis_type is comprehensive.
C9_ValidAnalyzeAnswers200 ==
    (demo.endpoint = "analyze" /\ demo.status # "422") =>
        /\ demo.status = "200"
        /\ demo.body.summary
        /\ demo.analysis_type = "comprehensive" =>
               (demo.body.sentiment /\ demo.body.entities /\ demo.body.keywords)

\* C10: no request is retried: ws.send is called at most once with a
\* request, whether the send fails, the request times out or the bridge
\* reconnects afterwards, and the caller of _send_request gets exactly one
\* outcome for it.
C10_SentAndReportedAtMostOnce ==
    \A r \in RequestIds :
        /\ attempts[r] <= 1
        /\ reported[r] <= 1
        /\ callPc[r] \in {"returned", "raised"} => reported[r] = 1

\* One request was sent and timed out, another failed in ws.send on a
\* closed connection; both were reported once, and the bridge has
\* connected again since without sending either a second time.
C10_Witness ==
    \E r1, r2 \in RequestIds :
        /\ callPc[r1] = "raised" /\ future[r1] = "cancelled"
        /\ attempts[r1] = 1 /\ mcp_received[r1] # 0 /\ reported[r1] = 1
        /\ callPc[r2] = "raised" /\ attempts[r2] = 1 /\ mcp_received[r2] = 0
        /\ reported[r2] = 1
        /\ mcp_connected /\ ws \notin {0, mcp_received[r1]}

\* The number of unhealthy checks in a row that end with check i, counted
\* from the results the checks had.
RECURSIVE UnhealthyRun(_)
UnhealthyRun(i) ==
    IF i = 0 \/ (monitor_log[i].health_endpoint /\ monitor_log[i].sse_endpoint)
    THEN 0 ELSE 1 + UnhealthyRun(i - 1)

\* The alerts sent so far, in order.
AlertsSent == SelectSeq(monitor_log, LAMBDA check : check.alert # None)

\* C11: the DOWN alert is sent at a check exactly when that check is the
\* third unhealthy check in a row (health endpoint or SSE endpoint failed):
\* not at the first or second, not again at the fourth or later.
C11_DownExactlyAtThirdFailure ==
    /\ \A i \in 1 .. Len(monitor_log) :
           monitor_log[i].alert = "DOWN" <=> UnhealthyRun(i) = 3
    /\ consecutive_failures = UnhealthyRun(Len(monitor_log))

\* An outage of four unhealthy checks, one by the health endpoint and one
\* by the SSE endpoint among them, with the one DOWN alert at the third.
C11_Witness ==
    /\ Len(monitor_log) = 4
    /\ UnhealthyRun(4) = 4
    /\ ~monitor_log[1].health_endpoint /\ monitor_log[1].sse_endpoint
    /\ monitor_log[2].health_endpoint /\ ~monitor_log[2].sse_endpoint
    /\ monitor_log[3].alert = "DOWN"
    /\ monitor_log[4].alert = None
    /\ consecutive_failures = 4

\* C12: the RECOVERED alert is sent at a check exactly when that check is
\* healthy and ends three or more unhealthy checks in a row; the alerts
\* sent alternate DOWN, RECOVERED, DOWN, ... from DOWN on; and
\* consecutive_failures is 0 after a healthy check.
C12_RecoveredOnceAfterOutage ==
    /\ \A i \in 1 .. Len(monitor_log) :
           monitor_log[i].alert = "RECOVERED" <=>
               (UnhealthyRun(i) = 0 /\ UnhealthyRun(i - 1) >= 3)
    /\ \A k \in 1 .. Len(AlertsSent) :
           AlertsSent[k].alert = IF k % 2 = 1 THEN "DOWN" ELSE "RECOVERED"
    /\ (Len(monitor_log) > 0 /\ UnhealthyRun(Len(monitor_log)) = 0) =>
           consecutive_failures = 0

\* An outage of three checks, the recovery, a single failure that passes
\* without an alert, a healthy check, and the recovery alert never repeated.
C12_Witness ==
    /\ Len(monitor_log) = 7
    /\ UnhealthyRun(3) = 3
    /\ monitor_log[4].alert = "RECOVERED"
    /\ UnhealthyRun(5) = 1
    /\ UnhealthyRun(6) = 0 /\ monitor_log[6].alert = None
    /\ UnhealthyRun(7) = 0 /\ monitor_log[7].alert = None
    /\ Len(AlertsSent) = 2
    /\ consecutive_failures = 0

\* The users a broadcast has failed to send to and still has to disconnect.
FailedSends(frame) == {frame.disconnected[i] : i \in 1 .. Len(frame.disconnected)}

\* C13: a broadcast in which a send has failed goes on to its end and
\* returns: it is not given up before it has sent to the other users and
\* disconnected the user of the failed send, and when it is done with that
\* user the user is in neither connections nor active_users.
C13_FailedSendIsCleanedUp ==
    [][\A s \in Sockets : \A k \in 1 .. Len(taskStack[s]) :
          LET frame == taskStack[s][k] IN
          \A user_id \in FailedSends(frame) :
              \E j \in 1 .. Len(taskStack'[s]) :
                  LET after == taskStack'[s][j] IN
                  /\ after.message = frame.message
                  /\ after.exclude = frame.exclude
                  /\ \/ user_id \in FailedSends(after)
                     \/ /\ ~Contains(connections'[frame.workspace_id], user_id)
                        /\ user_id \notin active_users'[frame.workspace_id]
      ]_vars

\* The messages of clients that are routed to the users of a workspace.
ExcludingSender == {"cursor_update", "file_change"}
IncludingSender == {"terminal_command", "terminal_output", "ai_request"}

\* C15: a message reaches only users of the sender's workspace, a
\* cursor_update or file_change never its sender; and when the handler of a
\* message is over, the message has reached every user of the workspace
\* that is still connected: all but the sender for cursor_update and
\* file_change, the sender included for terminal_command, terminal_output
\* and ai_request.
C15_RoutedByTypeAndWorkspace ==
    /\ [](\A t \in Sockets : \A i \in 1 .. Len(inbox[t]) :
             LET m == inbox[t][i] IN
             /\ m.workspace_id = websockets[t].workspace_id
             /\ m.type \in ExcludingSender => m.user_id # websockets[t].user_id)
    /\ [][\A s \in Sockets :
             (taskPc[s] = "handle" /\ taskPc'[s] # "handle") => owed[s] = {}]_vars

\* The position of a user's item in the connections of a workspace.
ItemOf(workspace_id, user_id) ==
    CHOOSE i \in 1 .. Len(connections[workspace_id]) :
        connections[workspace_id][i].key = user_id
\* Socket s is the connection of its user in its workspace.
IsConnected(s) ==
    /\ websockets[s].workspace_id \in DOMAIN connections
    /\ Contains(connections[websockets[s].workspace_id], websockets[s].user_id)
    /\ GetItem(connections[websockets[s].workspace_id], websockets[s].user_id) = s
\* Socket s has received user_joined for user_id.
HasJoined(s, user_id) ==
    \E i \in 1 .. Len(inbox[s]) :
        inbox[s][i].type = "user_joined" /\ inbox[s][i].user_id = user_id

\* C16: a client that connects and stays is taken through connect to the
\* end: it receives user_joined for itself and then users_list with itself
\* in it, files_cache and terminal_history, in this order, and the clients
\* connected before it and still there receive its user_joined.
C16_JoinAnnouncedThenStateSent ==
    /\ [](\A s \in Sockets :
             LET state == SelectSeq(inbox[s], LAMBDA m : m.user_id = "system") IN
             /\ \A i \in 1 .. Len(state) :
                    /\ state[i].type = <<"users_list", "files_cache",
                                         "terminal_history">>[i]
                    /\ state[i].type = "users_list" =>
                           websockets[s].user_id \in state[i].data.users
             /\ \A i \in 1 .. Len(inbox[s]) :
                    inbox[s][i].type = "users_list" =>
                        \E j \in 1 .. (i - 1) :
                            /\ inbox[s][j].type = "user_joined"
                            /\ inbox[s][j].user_id = websockets[s].user_id
             /\ taskPc[s] = "receive" => Len(state) = 3
             /\ \A t \in Sockets \ {s} :
                    (/\ taskPc[s] \in {"state1", "state2", "receive"}
                     /\ websockets[t].workspace_id = websockets[s].workspace_id
                     /\ websockets[t].user_id # websockets[s].user_id
                     /\ IsConnected(s) /\ IsConnected(t) /\ websockets[t].open
                     /\ ItemOf(websockets[t].workspace_id, websockets[t].user_id)
                            < ItemOf(websockets[s].workspace_id, websockets[s].user_id))
                    => HasJoined(t, websockets[s].user_id))
    /\ [][\A s \in Sockets :
             (taskPc[s] \in {"connect", "state1", "state2"} /\ websockets'[s].open)
                 => taskPc'[s] \in {"connect", "state1", "state2", "receive"}]_vars

\* The file paths changed so far in a workspace, each with the content of
\* the last change taken for it, read from the order of the changes.
LatestAccepted(workspace_id) ==
    {<<accepted_changes[i][2], accepted_changes[i][3]>> :
        i \in {j \in 1 .. Len(accepted_changes) :
                  /\ accepted_changes[j][1] = workspace_id
                  /\ \A k \in (j + 1) .. Len(accepted_changes) :
                         ~(accepted_changes[k][1] = workspace_id
                             /\ accepted_changes[k][2] = accepted_changes[j][2])}}
\* The paths and contents of a set of FileChange records.
PathsAndContents(files) == {<<c[1], c[2]>> : c \in files}

====
